---- MODULE Spec2Model ----
(***************************************************************************)
(* Model of the orientation reduction exercised by tests/test_orientation  *)
(* and of the plotting helpers of orix/plot/crystal_map_plot.py            *)
(* (convert_unit, the phase colouring of CrystalMapPlot.plot_map).         *)
(*                                                                         *)
(* Quaternions are kept exact: an integer 4-tuple q stands for the unit    *)
(* quaternion q / sqrt(Norm2(q)).  The Hamilton product of two tuples      *)
(* stands for the product of the unit quaternions, and comparisons of      *)
(* components are made on signed squares, so no rounding takes place.      *)
(* Groups whose elements need sqrt(3) (C3, D3) have no such form and are   *)
(* left out.                                                               *)
(***************************************************************************)
EXTENDS Integers, Sequences, FiniteSets, TLC

VARIABLES
    op,             \* the last operation performed, "init" before the first
    symmetry,       \* name of the symmetry group of the orientation scenario
    orientation,    \* the orientation o
    oc,             \* o.set_symmetry(symmetry)
    o2,             \* a second orientation derived from o or oc
    oc2,            \* o2.set_symmetry(symmetry)
    vector,         \* the vector of the persistence scenario
    v1,             \* o * symmetry.outer(vector)
    v2,             \* oc * symmetry.outer(vector)
    value,          \* convert_unit: the value argument
    unit,           \* convert_unit: the unit argument
    result,         \* convert_unit: what the call produced
    phase_id,       \* crystal_map.get_map_data("phase_id"), one entry per pixel
    phases_in_data, \* crystal_map.phases_in_data: (id, color_rgb) in id order
    data,           \* the RGB array of the image, one triple per pixel
    overlay,        \* add_overlay: crystal_map.get_map_data(item), one entry per pixel
    rescaled_overlay, \* add_overlay: the overlay scaled by its range
    map_width,      \* crystal_map.shape[-1]
    step_size,      \* crystal_map._step_sizes["x"]
    scan_unit,      \* crystal_map.scan_unit
    bar             \* add_scalebar: the scalebar created, or the error raised

symVars == <<symmetry, orientation, oc, o2, oc2, vector, v1, v2>>

unitVars == <<value, unit, result>>

barVars == <<map_width, step_size, scan_unit, bar>>

plotVars == <<phase_id, phases_in_data, data, overlay, rescaled_overlay, barVars>>

vars == <<op, symVars, unitVars, plotVars>>

\* Largest absolute component of the enumerated orientations and vectors.
MaxComp == 1

NoValue == <<>>

----
\* Quaternion algebra

Abs(n) == IF n < 0 THEN -n ELSE n

SignedSq(n) == n * Abs(n)

Norm2(q) == q[1] * q[1] + q[2] * q[2] + q[3] * q[3] + q[4] * q[4]

Neg(q) == <<-q[1], -q[2], -q[3], -q[4]>>

Identity == <<1, 0, 0, 0>>

\* Hamilton product p * q.
Mul(p, q) ==
    << p[1] * q[1] - p[2] * q[2] - p[3] * q[3] - p[4] * q[4],
       p[1] * q[2] + p[2] * q[1] + p[3] * q[4] - p[4] * q[3],
       p[1] * q[3] - p[2] * q[4] + p[3] * q[1] + p[4] * q[2],
       p[1] * q[4] + p[2] * q[3] - p[3] * q[2] + p[4] * q[1] >>

\* p and q stand for the same unit quaternion.
SameQuat(p, q) ==
    \A i \in 1..4 : SignedSq(p[i]) * Norm2(q) = SignedSq(q[i]) * Norm2(p)

\* p and q stand for the same rotation (q and -q are one rotation).
SameRotation(p, q) == SameQuat(p, q) \/ SameQuat(p, Neg(q))

\* Rotation of the vector with numerators num (a common denominator is kept
\* by the caller) by q: the vector part of q * (0, num) * conj(q), which is
\* Norm2(q) times the rotated vector.
RotNum(q, num) ==
    LET a == q[1]  b == q[2]  c == q[3]  d == q[4]
        x == num[1]  y == num[2]  z == num[3]
    IN  << (a*a + b*b - c*c - d*d) * x + 2 * ((a*c + b*d) * z + (b*c - a*d) * y),
           (a*a - b*b + c*c - d*d) * y + 2 * ((a*d + b*c) * x + (c*d - a*b) * z),
           (a*a - b*b - c*c + d*d) * z + 2 * ((a*b + c*d) * y + (b*d - a*c) * x) >>

\* A vector is [num |-> <<x, y, z>>, den |-> n], standing for num / n.
RotVec(q, v) == [num |-> RotNum(q, v.num), den |-> v.den * Norm2(q)]

SameVec(v, w) == \A i \in 1..3 : v.num[i] * w.den = w.num[i] * v.den

SameVecSet(S, T) ==
    /\ \A v \in S : \E w \in T : SameVec(v, w)
    /\ \A w \in T : \E v \in S : SameVec(v, w)

----
\* Symmetry groups: ordered, identity first

C1 == << <<1, 0, 0, 0>> >>

C2 == << <<1, 0, 0, 0>>, <<0, 0, 0, 1>> >>

C4 == << <<1, 0, 0, 0>>, <<1, 0, 0, 1>>, <<0, 0, 0, 1>>, <<-1, 0, 0, 1>> >>

D2 == << <<1, 0, 0, 0>>, <<0, 0, 0, 1>>, <<0, 1, 0, 0>>, <<0, 0, 1, 0>> >>

T == << <<1, 0, 0, 0>>, <<0, 0, 0, 1>>, <<0, 1, 0, 0>>, <<0, 0, 1, 0>>,
        <<1, 1, 1, 1>>, <<-1, 1, 1, 1>>, <<1, -1, 1, 1>>, <<1, 1, -1, 1>>,
        <<1, 1, 1, -1>>, <<-1, -1, 1, 1>>, <<-1, 1, -1, 1>>, <<-1, 1, 1, -1>> >>

O == T \o
     << <<1, 0, 0, 1>>, <<-1, 0, 0, 1>>, <<1, 1, 0, 0>>, <<-1, 1, 0, 0>>,
        <<1, 0, 1, 0>>, <<-1, 0, 1, 0>>, <<0, 1, 1, 0>>, <<0, -1, 1, 0>>,
        <<0, 1, 0, 1>>, <<0, -1, 0, 1>>, <<0, 0, 1, 1>>, <<0, 0, -1, 1>> >>

GroupNames == {"C1", "C2", "C4", "D2", "T", "O"}

Group(name) ==
    CASE name = "C1" -> C1
      [] name = "C2" -> C2
      [] name = "C4" -> C4
      [] name = "D2" -> D2
      [] name = "T" -> T
      [] name = "O" -> O

\* Variant: the group elements applied on the right, x * g.
outerRight(G, x) == [i \in 1..Len(G) |-> Mul(x, G[i])]

\* symmetry.outer(x): one result per group element, in the group's order.
outer(G, x) == [i \in 1..Len(G) |-> Mul(G[i], x)]

outerVec(G, v) == [i \in 1..Len(G) |-> RotVec(G[i], v)]

----
\* Orientation.set_symmetry

\* Variant: the scalar parts compared with their signs.
CloserSigned(cand, i, j) ==
    SignedSq(cand[i][1]) * Norm2(cand[j]) > SignedSq(cand[j][1]) * Norm2(cand[i])

\* Candidate i is strictly closer to the identity than candidate j:
\* |w_i| / |g_i| > |w_j| / |g_j| (both candidates share the factor |o|).
Closer(cand, i, j) ==
    cand[i][1] * cand[i][1] * Norm2(cand[j]) > cand[j][1] * cand[j][1] * Norm2(cand[i])

\* Variant: the last index of the largest scalar-part magnitude.
RECURSIVE ArgMaxLast(_, _, _)
ArgMaxLast(cand, i, best) ==
    IF i > Len(cand) THEN best
    ELSE IF cand[best][1] * cand[best][1] * Norm2(cand[i])
                > cand[i][1] * cand[i][1] * Norm2(cand[best])
    THEN ArgMaxLast(cand, i + 1, best)
    ELSE ArgMaxLast(cand, i + 1, i)

\* First index of the largest scalar-part magnitude (argmax keeps the first
\* of equal values), scanning the candidates in group order.
RECURSIVE ArgMax(_, _, _)
ArgMax(cand, i, best) ==
    IF i > Len(cand) THEN best
    ELSE IF Closer(cand, i, best) THEN ArgMax(cand, i + 1, i)
    ELSE ArgMax(cand, i + 1, best)

SelectedIndex(o, G) == ArgMax(outer(G, o), 2, 1)

\* Variant: the result negated when its scalar part is negative.
set_symmetryCanonical(o, G) ==
    LET q == outer(G, o)[SelectedIndex(o, G)]
    IN  IF q[1] < 0 THEN Neg(q) ELSE q

set_symmetry(o, G) == outer(G, o)[SelectedIndex(o, G)]

----
\* The orientation test scenarios

\* 33 / sqrt(2938) = 0.6088 and 43 / sqrt(2938) = 0.7933: the rotation by
\* 7 pi / 12 about z used by test_set_symmetry.
Test7pi12 == <<33, 0, 0, 43>>

Components == (0 - MaxComp)..MaxComp

\* Further orientations with unequal components: (3 + 4k) / 5 and others.
MoreOrientations ==
    { <<3, 0, 0, 4>>, <<2, 1, 0, 0>>, <<1, 2, 2, 0>>, <<-2, 0, 1, 3>>, <<1, -3, 2, 2>> }

Orientations ==
    {q \in Components \X Components \X Components \X Components : Norm2(q) > 0}
        \cup {Test7pi12} \cup MoreOrientations

\* The vectors of test_orientation_persistence.
Vectors == { <<1, 2, 3>>, <<1, -1, 3>>, <<1, 1, 1>>, <<0, 1, 0>> }

SymIdle ==
    /\ symmetry = "C1"
    /\ orientation = Identity
    /\ oc = NoValue
    /\ o2 = NoValue
    /\ oc2 = NoValue
    /\ vector = NoValue
    /\ v1 = {}
    /\ v2 = {}

UnitIdle ==
    /\ value = NoValue
    /\ unit = ""
    /\ result = NoValue

BarIdle ==
    /\ map_width = 0
    /\ step_size = NoValue
    /\ scan_unit = ""
    /\ bar = NoValue

PlotIdle ==
    /\ phase_id = <<>>
    /\ phases_in_data = <<>>
    /\ data = <<>>
    /\ overlay = <<>>
    /\ rescaled_overlay = <<>>
    /\ BarIdle

SymInit ==
    /\ op = "init"
    /\ UnitIdle
    /\ PlotIdle
    /\ symmetry \in GroupNames
    /\ orientation \in Orientations
    /\ oc = NoValue
    /\ o2 = NoValue
    /\ oc2 = NoValue
    /\ vector = NoValue
    /\ v1 = {}
    /\ v2 = {}

\* o = orientation.set_symmetry(symmetry)
SetSymmetry ==
    /\ op = "init"
    /\ oc' = set_symmetry(orientation, Group(symmetry))
    /\ op' = "set_symmetry"
    /\ UNCHANGED <<symmetry, orientation, o2, oc2, vector, v1, v2, unitVars, plotVars>>

\* o.set_symmetry(symmetry).set_symmetry(symmetry)
ReduceAgain ==
    /\ op = "set_symmetry"
    /\ o2' = oc
    /\ oc2' = set_symmetry(oc, Group(symmetry))
    /\ op' = "again"
    /\ UNCHANGED <<symmetry, orientation, oc, vector, v1, v2, unitVars, plotVars>>

\* (g * o).set_symmetry(symmetry) for an element g of the group
ReduceEquivalent ==
    /\ op = "set_symmetry"
    /\ \E i \in 1..Len(Group(symmetry)) :
          /\ o2' = Mul(Group(symmetry)[i], orientation)
          /\ oc2' = set_symmetry(Mul(Group(symmetry)[i], orientation), Group(symmetry))
    /\ op' = "equivalent"
    /\ UNCHANGED <<symmetry, orientation, oc, vector, v1, v2, unitVars, plotVars>>

\* The body of test_orientation_persistence: v = symmetry.outer(vector),
\* v1 = o * v, v2 = oc * v.
Persistence ==
    /\ op = "set_symmetry"
    /\ \E x \in Vectors :
          LET v == outerVec(Group(symmetry), [num |-> x, den |-> 1])
          IN  /\ vector' = x
              /\ v1' = {RotVec(orientation, v[i]) : i \in 1..Len(v)}
              /\ v2' = {RotVec(oc, v[i]) : i \in 1..Len(v)}
    /\ op' = "persistence"
    /\ UNCHANGED <<symmetry, orientation, oc, o2, oc2, unitVars, plotVars>>

SymNext == SetSymmetry \/ ReduceAgain \/ ReduceEquivalent \/ Persistence

SymSpec == SymInit /\ [][SymNext]_vars

\* The group tables are groups of rotations: closed under the product and
\* free of repeated rotations.
GroupsClosed ==
    \A n \in GroupNames :
        LET G == Group(n)
        IN  /\ G[1] = Identity
            /\ \A i, j \in 1..Len(G) : \E k \in 1..Len(G) : SameRotation(Mul(G[i], G[j]), G[k])
            /\ \A i, j \in 1..Len(G) : SameRotation(G[i], G[j]) => i = j

----
\* convert_unit

\* Largest decimal exponent of the enumerated values.
MaxExp == 4

\* A number is kept exact as [m |-> mantissa, e |-> exponent]: m * 10^e.
Dec(m, e) == [m |-> m, e |-> e]

\* x * 10^k and x / 10^k
Scale(x, k) == [m |-> x.m, e |-> x.e + k]

DecMul(x, y) == [m |-> x.m * y.m, e |-> x.e + y.e]

\* The same number without trailing zeros in the mantissa.
RECURSIVE Normal(_)
Normal(x) ==
    IF x.m = 0 THEN Dec(0, 0)
    ELSE IF x.m % 10 = 0 THEN Normal(Dec(x.m \div 10, x.e + 1))
    ELSE x

DecEq(x, y) == Normal(x) = Normal(y)

RECURSIVE Digits(_)
Digits(m) == IF m < 10 THEN 1 ELSE 1 + Digits(m \div 10)

\* 1 <= x: the mantissa has more digits than the exponent takes away.
AtLeastOne(x) == x.m > 0 /\ (x.e >= 0 \/ Digits(x.m) > 0 - x.e)

\* x < 1000
BelowThousand(x) == x.m <= 0 \/ Digits(x.m) + x.e <= 3

\* np.floor(np.log10(x)) for x > 0
FloorLog10(x) == x.e + Digits(x.m) - 1

\* letters = "yzafpnum kMGTPEZY": (letter + "m").strip(" ") for each letter.
UnitNames ==
    [i \in 0..16 |->
        CASE i = 0 -> "ym" [] i = 1 -> "zm" [] i = 2 -> "am" [] i = 3 -> "fm"
          [] i = 4 -> "pm" [] i = 5 -> "nm" [] i = 6 -> "um" [] i = 7 -> "mm"
          [] i = 8 -> "m" [] i = 9 -> "km" [] i = 10 -> "Mm" [] i = 11 -> "Gm"
          [] i = 12 -> "Tm" [] i = 13 -> "Pm" [] i = 14 -> "Em" [] i = 15 -> "Zm"
          [] i = 16 -> "Ym"]

\* lookup_table[i] = (unit, 10 ** (3 * i - 24)); the multiplier is kept as
\* its power of ten.
lookup_table == [i \in 0..16 |-> [unit |-> UnitNames[i], power |-> 3 * i - 24]]

TableUnits == {lookup_table[i].unit : i \in 0..16}

\* Python's None where an index is expected: no valid index.
None == 0 - 999

\* Variant: 'px' looked up as it is.
AssumedUnitKept(u) == u

\* If unit is 'px', we assume 'um'.
AssumedUnit(u) == IF u = "px" THEN "um" ELSE u

\* Variant: the index starts at 8 (metres) instead of None.
NewUnitIdxDefault(u) ==
    IF \E i \in 0..16 : lookup_table[i].unit = u
    THEN CHOOSE i \in 0..16 : lookup_table[i].unit = u
    ELSE 8

\* new_unit_idx after the loop over the letters: the index of the unit, or
\* None when no entry matches.
NewUnitIdx(u) ==
    IF \E i \in 0..16 : lookup_table[i].unit = u
    THEN CHOOSE i \in 0..16 : lookup_table[i].unit = u
    ELSE None

\* Variant: the quotient truncated towards zero instead of floored.
SuitableUnitIdxTruncated(power_of_value) ==
    (IF power_of_value >= 0
     THEN power_of_value \div 3
     ELSE 0 - ((0 - power_of_value) \div 3)) + 8

\* int(np.floor(power_of_value / 3) + 8)
SuitableUnitIdx(power_of_value) == (power_of_value \div 3) + 8

\* lookup_table[idx] of a Python list: a negative index counts from the end,
\* an index outside -17..16 raises IndexError.
ListIndex(idx) ==
    IF idx >= 0 /\ idx <= 16 THEN idx
    ELSE IF idx < 0 /\ idx >= 0 - 17 THEN idx + 17
    ELSE None

\* Variant: the quotient of the multipliers inverted.
FactorInverted(suitable, old) ==
    Dec(1, lookup_table[old].power - lookup_table[suitable].power)

\* factor = lookup_table[suitable_unit_idx][1] / lookup_table[new_unit_idx][1]
Factor(suitable, old) ==
    Dec(1, lookup_table[suitable].power - lookup_table[old].power)

Raised(kind) == [status |-> kind]

convert_unit(val, u) ==
    LET new_unit_idx == NewUnitIdx(AssumedUnit(u))
    IN  IF new_unit_idx = None
        THEN Raised("TypeError")             \* lookup_table[None]
        ELSE
        LET value_in_metres == Scale(val, lookup_table[new_unit_idx].power)
        IN  IF value_in_metres.m < 0
            THEN Raised("ValueError")        \* int(nan)
            ELSE IF value_in_metres.m = 0
            THEN Raised("OverflowError")     \* int(-inf)
            ELSE
            LET power_of_value == FloorLog10(value_in_metres)
                suitable_unit_idx == SuitableUnitIdx(power_of_value)
                entry == ListIndex(suitable_unit_idx)
            IN  IF entry = None
                THEN Raised("IndexError")
                ELSE [status |-> "ok",
                      suitable_unit_idx |-> suitable_unit_idx,
                      new_value |-> Scale(value_in_metres, 0 - lookup_table[entry].power),
                      new_unit |-> IF u = "px" THEN "px" ELSE lookup_table[entry].unit,
                      factor |-> Factor(entry, new_unit_idx)]

Mantissas == {1, 5, 10, 999, 1000, 1755, 0, -3}

Units == TableUnits \cup {"px", "inch", "Um", ""}

UnitInit ==
    /\ op = "init"
    /\ SymIdle
    /\ PlotIdle
    /\ value \in {Dec(m, e) : m \in Mantissas, e \in (0 - MaxExp)..MaxExp}
    /\ unit \in Units
    /\ result = NoValue

ConvertUnit ==
    /\ op = "init"
    /\ value # NoValue
    /\ result' = convert_unit(value, unit)
    /\ op' = "convert_unit"
    /\ UNCHANGED <<symVars, value, unit, plotVars>>

UnitNext == ConvertUnit

UnitSpec == UnitInit /\ [][UnitNext]_vars

----
\* CrystalMapPlot.plot_map, value=None: the phase map

\* Number of pixels of the enumerated maps.
MaxPixels == 3

\* Largest phase id of the enumerated maps.
MaxPhase == 3

\* The entry of a pixel that is not in the data.
NaN == 0 - 998

PhaseIds == 1..MaxPhase

White == <<1, 1, 1>>

\* The display colour of each phase.
color_rgb(id) ==
    CASE id = 1 -> <<1, 0, 0>>
      [] id = 2 -> <<0, 1, 0>>
      [] id = 3 -> <<0, 0, 1>>
      [] OTHER -> <<1, 1, 0>>

\* np.unique: the elements of S in increasing order.
RECURSIVE unique(_)
unique(S) ==
    IF S = {} THEN <<>>
    ELSE LET least == CHOOSE x \in S : \A y \in S : x <= y
         IN  <<least>> \o unique(S \ {least})

\* The phases of ids (those present in the data that have a phase) in id order.
PhaseList(ids) ==
    LET order == unique(ids)
    IN  [k \in 1..Len(order) |-> [id |-> order[k], color_rgb |-> color_rgb(order[k])]]

colors_rgb(phases) == [k \in 1..Len(phases) |-> phases[k].color_rgb]

\* data[mask] = data[mask] * color with mask = (phase_id == i)
Paint(image, ids, i, color) ==
    [p \in 1..Len(image) |->
        IF ids[p] # NaN /\ ids[p] = i
        THEN <<image[p][1] * color[1], image[p][2] * color[2], image[p][3] * color[3]>>
        ELSE image[p]]

\* for i, color in zip(unique_phase_ids, colors): the pairs from position k on.
RECURSIVE PaintAll(_, _, _, _, _)
PaintAll(image, ids, unique_phase_ids, colors, k) ==
    IF k > Len(unique_phase_ids) \/ k > Len(colors) THEN image
    ELSE PaintAll(Paint(image, ids, unique_phase_ids[k], colors[k]),
                  ids, unique_phase_ids, colors, k + 1)

PhaseMap(ids, phases) ==
    LET unique_phase_ids == unique({ids[p] : p \in 1..Len(ids)} \ {NaN})
        ones == [p \in 1..Len(ids) |-> White]
    IN  PaintAll(ones, ids, unique_phase_ids, colors_rgb(phases), 1)

PlotInit ==
    /\ op = "init"
    /\ SymIdle
    /\ UnitIdle
    /\ phase_id \in [1..MaxPixels -> PhaseIds \cup {NaN}]
    /\ \E ids \in SUBSET ({phase_id[p] : p \in 1..MaxPixels} \ {NaN}) :
          phases_in_data = PhaseList(ids)
    /\ data = <<>>
    /\ overlay = <<>>
    /\ rescaled_overlay = <<>>
    /\ BarIdle

PlotMap ==
    /\ op = "init"
    /\ phase_id # <<>>
    /\ data' = PhaseMap(phase_id, phases_in_data)
    /\ op' = "plot_map"
    /\ UNCHANGED <<symVars, unitVars, phase_id, phases_in_data, overlay, rescaled_overlay, barVars>>

\* Largest value of the enumerated overlay properties.
MaxOverlay == 2

\* A float that came out of a division is kept as the fraction num / den;
\* den = 0 stands for nan (0.0 / 0.0 and every operation on nan).
Frac(n, d) == [num |-> n, den |-> d]

IsNan(x) == x.den = 0

\* np.nanmin and np.nanmax: over the entries that are not nan; nan when
\* there is none.
nanmin(a) ==
    LET S == {a[p] : p \in 1..Len(a)} \ {NaN}
    IN  IF S = {} THEN NaN ELSE CHOOSE x \in S : \A y \in S : x <= y

nanmax(a) ==
    LET S == {a[p] : p \in 1..Len(a)} \ {NaN}
    IN  IF S = {} THEN NaN ELSE CHOOSE x \in S : \A y \in S : x >= y

\* (overlay - overlay_min) / (np.nanmax(overlay) - overlay_min), per pixel;
\* a nan operand gives nan, and so does 0 / 0.
Rescale(a) ==
    LET overlay_min == nanmin(a)
        overlay_max == nanmax(a)
    IN  [p \in 1..Len(a) |->
            IF a[p] = NaN \/ overlay_min = NaN
            THEN Frac(0, 0)
            ELSE Frac(a[p] - overlay_min, overlay_max - overlay_min)]

\* image_data[:, :, i] *= rescaled_overlay for the three channels.
Multiply(image, rescaled) ==
    [p \in 1..Len(image) |->
        [i \in 1..3 |->
            IF IsNan(rescaled[p]) THEN Frac(0, 0)
            ELSE Frac(image[p][i] * rescaled[p].num, rescaled[p].den)]]

\* add_overlay on the RGB image of a phase map (image_data.ndim = 3); the
\* property is nan at least where the pixel is not in the data.
AddOverlay ==
    /\ op = "plot_map"
    /\ \E a \in [1..Len(phase_id) -> (0..MaxOverlay) \cup {NaN}] :
          /\ \A p \in 1..Len(phase_id) : phase_id[p] = NaN => a[p] = NaN
          /\ overlay' = a
          /\ rescaled_overlay' = Rescale(a)
          /\ data' = Multiply(data, Rescale(a))
    /\ op' = "add_overlay"
    /\ UNCHANGED <<symVars, unitVars, phase_id, phases_in_data, barVars>>

PlotNext == PlotMap \/ AddOverlay

PlotSpec == PlotInit /\ [][PlotNext]_vars

----
\* CrystalMapPlot.add_scalebar

\* Largest map width of the enumerated maps, in tens of pixels.
MaxWidth == 3

RECURSIVE Pow10(_)
Pow10(n) == IF n = 0 THEN 1 ELSE 10 * Pow10(n - 1)

good_values == <<1, 2, 5, 10, 15, 20, 25, 50, 75, 100, 125, 150, 200, 500, 750>>

\* abs(x - g) for the decimal x and the integer g, in units of 10^-k with
\* k the number of decimals of x.
Difference(x, g) ==
    IF x.e >= 0 THEN Abs(x.m * Pow10(x.e) - g)
    ELSE Abs(x.m - g * Pow10(0 - x.e))

\* np.where(difference == difference.min())[0][0]: the first index of the
\* smallest difference.
RECURSIVE WhereMin(_, _, _)
WhereMin(x, i, best) ==
    IF i > Len(good_values) THEN best
    ELSE IF Difference(x, good_values[i]) < Difference(x, good_values[best])
    THEN WhereMin(x, i + 1, i)
    ELSE WhereMin(x, i + 1, best)

\* The good value closest to x.  Below one the closest is the first good
\* value, whatever the number of decimals.
GoodValue(x) ==
    IF ~AtLeastOne(x) THEN good_values[1] ELSE good_values[WhereMin(x, 2, 1)]

\* float.is_integer
is_integer(x) == Normal(x).e >= 0

\* The micro sign followed by "m".
MicroMetre == "(micro)m"

add_scalebar(width, step, u) ==
    LET initial == Dec(width * step.m, step.e - 1)     \* 0.1 * map_width * step_size
        converted == convert_unit(initial, u)
    IN  IF converted.status # "ok" THEN converted
        ELSE
        LET scalebar_width == DecMul(Dec(GoodValue(converted.new_value), 0),
                                     converted.factor)
        IN  [status |-> "ok",
             size |-> [num |-> scalebar_width, den |-> step],   \* scalebar_width_px
             number |-> scalebar_width,
             unit |-> IF converted.new_unit = "um" THEN MicroMetre
                      ELSE converted.new_unit,
             warned |-> ~is_integer(scalebar_width)]

StepSizes == {Dec(m, e) : m \in {1, 5, 15, 1755, 0}, e \in (0 - MaxExp)..MaxExp}

BarInit ==
    /\ op = "init"
    /\ SymIdle
    /\ UnitIdle
    /\ phase_id = <<>>
    /\ phases_in_data = <<>>
    /\ data = <<>>
    /\ overlay = <<>>
    /\ rescaled_overlay = <<>>
    /\ map_width \in {10 * w : w \in 1..MaxWidth}
    /\ step_size \in StepSizes
    /\ scan_unit \in Units
    /\ bar = NoValue

AddScalebar ==
    /\ op = "init"
    /\ step_size # NoValue
    /\ bar' = add_scalebar(map_width, step_size, scan_unit)
    /\ op' = "add_scalebar"
    /\ UNCHANGED <<symVars, unitVars, phase_id, phases_in_data, data, overlay,
                   rescaled_overlay, map_width, step_size, scan_unit>>

BarNext == AddScalebar

BarSpec == BarInit /\ [][BarNext]_vars

\* Everything together.
Init == SymInit \/ UnitInit \/ PlotInit \/ BarInit

Next == SymNext \/ UnitNext \/ PlotNext \/ BarNext

Spec == Init /\ [][Next]_vars

----
\* Properties of convert_unit

Converted == op = "convert_unit"

Returned == Converted /\ result.status = "ok"

\* C5: a returned triple satisfies new_value * factor = value, with factor
\* the multiplier of the new unit over the multiplier of the input unit;
\* 17.55e3 nm gives 17.55 um with factor 1000, 17.55e-3 mm gives 17.55 um
\* with factor 0.001.
C5_RoundTrip ==
    Returned =>
        /\ DecEq(DecMul(result.new_value, result.factor), value)
        /\ \A i, j \in 0..16 :
              (lookup_table[i].unit = unit /\ lookup_table[j].unit = result.new_unit)
                  => DecEq(result.factor,
                           Dec(1, lookup_table[j].power - lookup_table[i].power))
        /\ (DecEq(value, Dec(1755, 1)) /\ unit = "nm") =>
              /\ DecEq(result.new_value, Dec(1755, 0 - 2))
              /\ result.new_unit = "um"
              /\ DecEq(result.factor, Dec(1000, 0))
        /\ (DecEq(value, Dec(1755, 0 - 5)) /\ unit = "mm") =>
              /\ DecEq(result.new_value, Dec(1755, 0 - 2))
              /\ result.new_unit = "um"
              /\ DecEq(result.factor, Dec(1, 0 - 3))

\* The documented call convert_unit(17.55e3, "nm").
C5_Witness ==
    /\ Returned
    /\ value = Dec(1755, 1)
    /\ unit = "nm"
    /\ result.new_unit = "um"
    /\ result.factor = Dec(1, 3)

\* The value in metres lies within the table: 1e-24 <= value_in_metres < 1e27.
WithinTable ==
    /\ unit \in TableUnits
    /\ value.m > 0
    /\ AtLeastOne(Scale(value, lookup_table[NewUnitIdx(unit)].power + 24))
    /\ BelowThousand(Scale(value, lookup_table[NewUnitIdx(unit)].power - 24))

\* The result names table entry suitable_unit_idx and its mantissa is in
\* [1, 1000).
MantissaKept ==
    /\ result.status = "ok"
    /\ result.suitable_unit_idx \in 0..16
    /\ result.new_unit = lookup_table[result.suitable_unit_idx].unit
    /\ AtLeastOne(result.new_value)
    /\ BelowThousand(result.new_value)

C7_ErrorsSurface ==
    Converted =>
        /\ result.status = "ok" => (value.m > 0 /\ unit \in TableUnits \cup {"px"})
        /\ (value.m <= 0 /\ unit \in TableUnits \cup {"px"})
              => result.status \in {"ValueError", "OverflowError"}
        /\ unit \notin TableUnits \cup {"px"} => result.status = "TypeError"

\* A call with a negative value and a known unit.
C7_Witness ==
    /\ Converted
    /\ value.m < 0
    /\ unit = "um"
    /\ result.status = "ValueError"

\* C8: for value > 0, convert_unit(value, "px") gives the new_value and the
\* factor of convert_unit(value, "um"), and new_unit "px".
C8_PxSentinel ==
    (Converted /\ unit = "px" /\ value.m > 0) =>
        LET um == convert_unit(value, "um")
        IN  /\ result.status = um.status
            /\ result.status = "ok" =>
                  /\ result.new_value = um.new_value
                  /\ result.factor = um.factor
                  /\ result.new_unit = "px"

\* A "px" call for which the prefix selected is not micro.
C8_Witness ==
    /\ Returned
    /\ unit = "px"
    /\ result.new_unit = "px"
    /\ result.suitable_unit_idx # 6
    /\ result.factor # Dec(1, 0)

----
\* Properties of set_symmetry

\* np.allclose(q, e, atol=1e-3) for the unit quaternion of q and e given in
\* units of 1e-4: e - 10 <= 1e4 * q[i] / |q| <= e + 10, compared on signed
\* squares (x |-> x|x| is increasing) with the bounds rounded inwards to 1e-4.
AllClose(q, e) ==
    \A i \in 1..4 :
        LET lo == 0 - ((0 - SignedSq(e[i] - 10)) \div 10000)
            hi == SignedSq(e[i] + 10) \div 10000
        IN  /\ lo * Norm2(q) <= 10000 * SignedSq(q[i])
            /\ 10000 * SignedSq(q[i]) <= hi * Norm2(q)

\* The input of the 7 pi / 12 cases and the expected results, in units of 1e-4.
TestInput == <<6088, 0, 0, 7934>>

TestExpected(name) ==
    CASE name = "C2" -> <<-7934, 0, 0, 6088>>
      [] name = "C4" -> <<-9914, 0, 0, -1305>>
      [] name = "O" -> <<-9914, 0, 0, -1305>>

TestedGroups == {"C2", "C4", "O"}

\* The candidates the reduction chooses from.
Candidates == outer(Group(symmetry), orientation)

\* Candidates i and j have the same scalar-part magnitude.
Tie(cand, i, j) == ~Closer(cand, i, j) /\ ~Closer(cand, j, i)

UniqueLargest ==
    LET sel == SelectedIndex(orientation, Group(symmetry))
    IN  \A j \in 1..Len(Candidates) : j # sel => Closer(Candidates, sel, j)

C3_Idempotence == op = "again" => SameQuat(oc2, oc)

\* A second reduction of an orientation the first reduction changed, with a
\* tie in the orbit.
C3_Witness ==
    /\ op = "again"
    /\ ~SameRotation(oc, orientation)
    /\ ~UniqueLargest
    /\ oc2 = oc

----
\* Properties of the phase map

HasColour(id) == \E k \in 1..Len(phases_in_data) : phases_in_data[k].id = id

\* C10: a pixel of phase p has the display colour of phase p; a pixel that is
\* not indexed, or whose phase has no colour entry, is white.
C10_PhaseColours ==
    op = "plot_map" =>
        \A p \in 1..Len(phase_id) :
            IF phase_id[p] # NaN /\ HasColour(phase_id[p])
            THEN data[p] = color_rgb(phase_id[p])
            ELSE data[p] = White

----
\* Properties of the overlay

\* 0 <= x <= 1 for a fraction that is not nan
InUnitRange(x) ==
    IF x.den > 0 THEN 0 <= x.num /\ x.num <= x.den
    ELSE x.num <= 0 /\ x.den <= x.num

IsValue(x, n) == ~IsNan(x) /\ x.num = n * x.den

\* C11: every overlay value that is not nan is rescaled to a number in
\* [0, 1], the smallest to 0 and the largest to 1 when they differ, also when
\* all overlay values are equal; each colour channel of the phase map is
\* multiplied by the rescaled value of its pixel.
C11_OverlayRange ==
    op = "add_overlay" =>
        /\ \A p \in 1..Len(overlay) :
              /\ overlay[p] # NaN =>
                    (~IsNan(rescaled_overlay[p]) /\ InUnitRange(rescaled_overlay[p]))
              /\ (overlay[p] # NaN /\ nanmin(overlay) < nanmax(overlay)) =>
                    /\ overlay[p] = nanmin(overlay) => IsValue(rescaled_overlay[p], 0)
                    /\ overlay[p] = nanmax(overlay) => IsValue(rescaled_overlay[p], 1)
        /\ \A p \in 1..Len(overlay) : \A i \in 1..3 :
              LET before == PhaseMap(phase_id, phases_in_data)[p][i]
              IN  IF IsNan(rescaled_overlay[p]) THEN IsNan(data[p][i])
                  ELSE /\ ~IsNan(data[p][i])
                       /\ data[p][i].num * rescaled_overlay[p].den
                              = before * rescaled_overlay[p].num * data[p][i].den

\* The overlay values differ: the range is a proper interval.
ProperRange == nanmin(overlay) # NaN /\ nanmin(overlay) < nanmax(overlay)

\* The same, where the overlay has two different values.
OverlayRangeProper == (op = "add_overlay" /\ ProperRange) => C11_OverlayRange

----
\* Properties of the scalebar

Drawn == op = "add_scalebar" /\ bar.status = "ok"

\* The power of ten of a unit shown in the label or given as scan unit;
\* pixels count as micrometres.
UnitPower(u) ==
    lookup_table[NewUnitIdx(IF u = MicroMetre THEN "um" ELSE AssumedUnit(u))].power

\* The length the label states equals the length of the bar:
\* number * multiplier(label unit) = size * step_size * multiplier(scan unit).
LabelIsBarLength ==
    DecEq(DecMul(Scale(bar.number, UnitPower(bar.unit)), bar.size.den),
          DecMul(Scale(bar.size.num, UnitPower(scan_unit)), step_size))

\* What convert_unit returns for the initial width 0.1 * map_width * step_size.
ConvertedInitial ==
    convert_unit(Dec(map_width * step_size.m, step_size.e - 1), scan_unit)

\* The number of the label is a good value with no other good value closer
\* to the converted initial width.
LabelIsGoodValue ==
    LET x == ConvertedInitial.new_value
    IN  \E i \in 1..Len(good_values) :
            /\ DecEq(bar.number, Dec(good_values[i], 0))
            /\ AtLeastOne(x) =>
                  \A j \in 1..Len(good_values) :
                      Difference(x, good_values[i]) <= Difference(x, good_values[j])
            /\ ~AtLeastOne(x) => i = 1

\* C12: the number and the unit of the label denote the length of the drawn
\* bar, also when convert_unit changes the unit, and the number is a good
\* value nearest to the converted initial width.
C12_LabelConsistent == Drawn => (LabelIsBarLength /\ LabelIsGoodValue)

\* The same where convert_unit keeps the unit (factor = 1).
LabelConsistentSameUnit ==
    (Drawn /\ DecEq(ConvertedInitial.factor, Dec(1, 0)))
        => (LabelIsBarLength /\ LabelIsGoodValue)

\* A bar is drawn after convert_unit changed the unit.
UnitChanged == Drawn /\ ~DecEq(ConvertedInitial.factor, Dec(1, 0))

====
